---- MODULE Spec2Model ----
(***************************************************************************)
(* Coal ash marketplace backend (backend/server.py): the order engine      *)
(* (create_order) and the supply/demand matcher                            *)
(* (get_matching_suggestions) over the products, demands and orders        *)
(* collections of the document store.                                      *)
(*                                                                         *)
(* A collection is a sequence of documents in insertion order (the store's *)
(* natural order; the handlers never sort these queries).  A document's id *)
(* (a uuid4 in the code) is its insertion index.  Prices are floats in the *)
(* code and integers here: the handlers only compare them and multiply     *)
(* them by an integer quantity.  Text fields the handlers only copy        *)
(* (title, city, delivery_address, contract_terms ...) are left out.       *)
(*                                                                         *)
(* Every await of a handler is a point where another request may run, so   *)
(* create_order is three steps: the role check with the find_one and the   *)
(* availability check, the insert_one, and the update_one.                 *)
(***************************************************************************)
EXTENDS Integers, Sequences, FiniteSets

VARIABLES products, demands, orders, req, hist, raced, suggestions,
          users, dashboard, stocked

vars == <<products, demands, orders, req, hist, raced, suggestions,
          users, dashboard, stocked>>

---------------------------------------------------------------------------
(* Bounds of the model *)

MaxProducts == 1
MaxOrders == 2

Requests == {"r1", "r2"}

---------------------------------------------------------------------------
(* Users and roles: the auth layer hands every handler a User with a role *)

Users == {"supplier1", "supplier2", "buyer1", "buyer2", "logistics1", "admin1"}

UserRole(u) ==
    CASE u \in {"supplier1", "supplier2"} -> "supplier"
      [] u \in {"buyer1", "buyer2"} -> "buyer"
      [] u = "logistics1" -> "logistics"
      [] OTHER -> "admin"

CoalAshType == {"fly_ash", "bottom_ash", "pond_ash"}

\* User(**user_dict): the document of a registered user (its id and its email
\* are the user's name here)
User(u) == [id |-> u, email |-> u, role |-> UserRole(u)]

\* the users collection with every user registered
AllUsers ==
    <<User("supplier1"), User("supplier2"), User("buyer1"), User("buyer2"),
      User("logistics1"), User("admin1")>>

\* get_current_user: the caller's document is in the users collection
Registered(u) == \E i \in DOMAIN users : users[i].id = u

\* no dashboard response has been given to a user yet
NotAsked == [asked |-> FALSE]

\* the quantity_available each stored product was created with (history)
StockedAt(coll) == [i \in DOMAIN coll |-> coll[i].quantity_available]

---------------------------------------------------------------------------
(* Store primitives *)

NoDoc == [id |-> 0]

\* find_one({"id": id}): the first document with that id, or None
FindOne(coll, id) ==
    IF \E i \in DOMAIN coll : coll[i].id = id
    THEN coll[CHOOSE i \in DOMAIN coll :
                 coll[i].id = id /\ \A j \in DOMAIN coll : coll[j].id = id => i <= j]
    ELSE NoDoc

\* insert_one(doc)
InsertOne(coll, doc) == Append(coll, doc)

\* update_one({"id": id}, {"$inc": {"quantity_available": delta}}): atomic in
\* the store, applied to the document's current value
IncQuantityWrongSign(coll, id, delta) ==
    [i \in DOMAIN coll |->
        IF coll[i].id = id
        THEN [coll[i] EXCEPT !.quantity_available = @ - delta]
        ELSE coll[i]]

IncQuantity(coll, id, delta) ==
    [i \in DOMAIN coll |->
        IF coll[i].id = id
        THEN [coll[i] EXCEPT !.quantity_available = @ + delta]
        ELSE coll[i]]

\* CoalAshProduct(**product_dict): is_active defaults to True
CoalAshProduct(id, supplier, data) ==
    [id |-> id, supplier_id |-> supplier, ash_type |-> data.ash_type,
     quantity_available |-> data.quantity_available,
     price_per_ton |-> data.price_per_ton, is_active |-> TRUE]

---------------------------------------------------------------------------
(* create_order *)

\* the availability check of create_order
InsufficientOffByOne(product, quantity) == product.quantity_available + 1 < quantity

InsufficientNever(product, quantity) == FALSE

Insufficient(product, quantity) == product.quantity_available < quantity

\* total_amount as create_order computes it
TotalAmountFromStock(product, quantity) == product.price_per_ton * product.quantity_available

TotalAmount(product, quantity) == product.price_per_ton * quantity

\* Order(**order_dict): status defaults to pending
Order(id, buyer, product, quantity) ==
    [id |-> id, buyer_id |-> buyer, supplier_id |-> product.supplier_id,
     product_id |-> product.id, quantity |-> quantity,
     agreed_price_per_ton |-> product.price_per_ton,
     total_amount |-> TotalAmount(product, quantity), status |-> "pending"]

\* The outcome of the checks of create_order, in the order the code makes
\* them: 403, 404, 400, or 200 when the order goes ahead
CheckOrderLookupFirst(u, coll, pid, quantity) ==
    IF FindOne(coll, pid) = NoDoc THEN 404
    ELSE IF UserRole(u) # "buyer" THEN 403
    ELSE IF Insufficient(FindOne(coll, pid), quantity) THEN 400
    ELSE 200

CheckOrder(u, coll, pid, quantity) ==
    IF UserRole(u) # "buyer" THEN 403
    ELSE IF FindOne(coll, pid) = NoDoc THEN 404
    ELSE IF Insufficient(FindOne(coll, pid), quantity) THEN 400
    ELSE 200

IdleReq == [pc |-> "idle", caller |-> "none", product_id |-> 0, quantity |-> 0,
            product |-> NoDoc, status |-> 0]

IdleHist == [orders_before |-> 0, interfered |-> FALSE]

InFlight(r) == req[r].pc \in {"insert", "update"}

\* the orders recorded against product pid
OrdersOf(os, pid) == {i \in DOMAIN os : os[i].product_id = pid}

\* another request writes the store for product pid while r is in flight
Interfere(r, pid) ==
    [x \in Requests |->
        IF x # r /\ InFlight(x) /\ req[x].product_id = pid
        THEN [hist[x] EXCEPT !.interfered = TRUE]
        ELSE hist[x]]

---------------------------------------------------------------------------
(* get_matching_suggestions *)

\* the limits the handler passes to to_list
DemandsLimit == 1000
ProductsLimit == 1000
MatchingProductsLimit == 10
MatchingDemandsLimit == 10

\* DemandRequest(**demand_dict): is_active defaults to True
DemandRequest(id, buyer, data) ==
    [id |-> id, buyer_id |-> buyer, ash_type |-> data.ash_type,
     quantity_required |-> data.quantity_required,
     max_price_per_ton |-> data.max_price_per_ton, is_active |-> TRUE]

\* cursor.to_list(n): the first n documents of the cursor
ToListAll(cursor, n) == cursor

ToList(cursor, n) ==
    IF Len(cursor) <= n THEN cursor ELSE SubSeq(cursor, 1, n)

\* the filter of the products query made for a demand
ProductFilterStrict(demand, p) ==
    /\ p.ash_type = demand.ash_type
    /\ p.quantity_available > demand.quantity_required
    /\ p.price_per_ton <= demand.max_price_per_ton
    /\ p.is_active = TRUE

ProductFilter(demand, p) ==
    /\ p.ash_type = demand.ash_type
    /\ p.quantity_available >= demand.quantity_required
    /\ p.price_per_ton <= demand.max_price_per_ton
    /\ p.is_active = TRUE

\* the filter of the demands query made for a product
DemandFilterStrict(product, d) ==
    /\ d.ash_type = product.ash_type
    /\ d.quantity_required < product.quantity_available
    /\ d.max_price_per_ton >= product.price_per_ton
    /\ d.is_active = TRUE

DemandFilter(product, d) ==
    /\ d.ash_type = product.ash_type
    /\ d.quantity_required <= product.quantity_available
    /\ d.max_price_per_ton >= product.price_per_ton
    /\ d.is_active = TRUE

\* the buyer branch: one group per active demand of the caller that has a
\* matching product
BuyerSuggestions(u) ==
    LET IsMine(d) == d.buyer_id = u /\ d.is_active = TRUE
        ds == ToList(SelectSeq(demands, IsMine), DemandsLimit)
        Group(d) ==
            LET Matches(p) == ProductFilter(d, p)
            IN [demand |-> d,
                matching_products |->
                    ToList(SelectSeq(products, Matches), MatchingProductsLimit)]
        groups == [i \in DOMAIN ds |-> Group(ds[i])]
        NonEmpty(g) == g.matching_products # <<>>
    IN SelectSeq(groups, NonEmpty)

\* the supplier branch: one group per active product of the caller that has a
\* matching demand
SupplierSuggestions(u) ==
    LET IsMine(p) == p.supplier_id = u /\ p.is_active = TRUE
        ps == ToList(SelectSeq(products, IsMine), ProductsLimit)
        Group(p) ==
            LET Matches(d) == DemandFilter(p, d)
            IN [product |-> p,
                matching_demands |->
                    ToList(SelectSeq(demands, Matches), MatchingDemandsLimit)]
        groups == [i \in DOMAIN ps |-> Group(ps[i])]
        NonEmpty(g) == g.matching_demands # <<>>
    IN SelectSeq(groups, NonEmpty)

\* the "suggestions" list of the response; other roles fall through both
\* branches with the empty list
MatchingSuggestions(u) ==
    IF UserRole(u) = "buyer" THEN BuyerSuggestions(u)
    ELSE IF UserRole(u) = "supplier" THEN SupplierSuggestions(u)
    ELSE <<>>

---------------------------------------------------------------------------
(* get_dashboard_analytics.  The recent_orders field of the response (the    *)
(* five newest orders) is left out: it holds no count.                      *)

RECURSIVE SumAmounts(_)
\* {"$group": {"total": {"$sum": "$total_amount"}}}, 0 when nothing matches
SumAmounts(os) ==
    IF os = <<>> THEN 0 ELSE Head(os).total_amount + SumAmounts(Tail(os))

AdminDashboard ==
    [total_users |-> Len(users),
     total_products |-> Cardinality({i \in DOMAIN products : products[i].is_active = TRUE}),
     total_orders |-> Len(orders),
     total_demands |-> Cardinality({i \in DOMAIN demands : demands[i].is_active = TRUE})]

SupplierDashboardInStock(u) ==
    LET IsMine(o) == o.supplier_id = u
    IN [my_products |-> Cardinality({i \in DOMAIN products :
                           products[i].supplier_id = u /\ products[i].quantity_available > 0}),
        my_orders |-> Len(SelectSeq(orders, IsMine)),
        total_revenue |-> SumAmounts(SelectSeq(orders, IsMine))]

SupplierDashboard(u) ==
    LET IsMine(o) == o.supplier_id = u
    IN [my_products |-> Cardinality({i \in DOMAIN products : products[i].supplier_id = u}),
        my_orders |-> Len(SelectSeq(orders, IsMine)),
        total_revenue |-> SumAmounts(SelectSeq(orders, IsMine))]

BuyerDashboard(u) ==
    LET IsMine(o) == o.buyer_id = u
    IN [my_demands |-> Cardinality({i \in DOMAIN demands : demands[i].buyer_id = u}),
        my_orders |-> Len(SelectSeq(orders, IsMine)),
        total_spent |-> SumAmounts(SelectSeq(orders, IsMine))]

\* the response by role; a logistics caller falls through every branch and
\* gets null
Dashboard(u) ==
    IF UserRole(u) = "admin" THEN AdminDashboard
    ELSE IF UserRole(u) = "supplier" THEN SupplierDashboard(u)
    ELSE IF UserRole(u) = "buyer" THEN BuyerDashboard(u)
    ELSE [null |-> TRUE]

---------------------------------------------------------------------------
(* Inputs of the order engine's specification *)

\* OrderCreate.quantity is a plain int: zero and negative values pass validation
Quantities == {-1, 0, 1, 2}

OrderCallers == {"buyer1", "supplier1", "admin1"}

ProductInputs ==
    {[ash_type |-> "fly_ash", quantity_available |-> 2, price_per_ton |-> 2],
     [ash_type |-> "fly_ash", quantity_available |-> 1, price_per_ton |-> 3]}

\* A product document the store holds with is_active false.  No handler writes
\* is_active; the store is persistent and shared, and every listing and
\* matching query filters on the stored flag.
InactiveProduct ==
    [id |-> 1, supplier_id |-> "supplier1", ash_type |-> "fly_ash",
     quantity_available |-> 2, price_per_ton |-> 2, is_active |-> FALSE]

Init ==
    /\ products \in {<<>>, <<InactiveProduct>>}
    /\ demands = <<>>
    /\ users = AllUsers
    /\ dashboard = [u \in Users |-> NotAsked]
    /\ stocked = StockedAt(products)
    /\ orders = <<>>
    /\ req = [r \in Requests |-> IdleReq]
    /\ hist = [r \in Requests |-> IdleHist]
    /\ raced = {}
    /\ suggestions = <<>>

---------------------------------------------------------------------------
(* Actions *)

\* POST /products by a supplier (any other role gets 403 and nothing changes)
create_product(u, data) ==
    /\ UserRole(u) = "supplier"
    /\ products' = InsertOne(products, CoalAshProduct(Len(products) + 1, u, data))
    /\ stocked' = Append(stocked, data.quantity_available)
    /\ UNCHANGED <<demands, orders, req, hist, raced, suggestions, users, dashboard>>

\* POST /orders, up to the first write: the role check, find_one on the
\* product and the availability check.  A failed check raises HTTPException
\* and the request is over; otherwise the product read stays in the handler's
\* local variable while it awaits the insert.
create_order_check(r, u, pid, quantity) ==
    /\ req[r].pc = "idle"
    /\ Len(orders) + Cardinality({x \in Requests : req[x].pc = "insert"}) < MaxOrders
    /\ LET code == CheckOrder(u, products, pid, quantity)
           product == IF code \in {200, 400} THEN FindOne(products, pid) ELSE NoDoc
       IN /\ req' = [req EXCEPT ![r] =
                        [pc |-> IF code = 200 THEN "insert" ELSE "done",
                         caller |-> u, product_id |-> pid, quantity |-> quantity,
                         product |-> product, status |-> code]]
          /\ hist' = [hist EXCEPT ![r] =
                        [orders_before |-> Cardinality(OrdersOf(orders, pid)),
                         interfered |-> FALSE]]
          /\ raced' = IF code = 200 /\ \E x \in Requests \ {r} :
                                          InFlight(x) /\ req[x].product_id = pid
                      THEN raced \cup {pid}
                      ELSE raced
    /\ UNCHANGED <<products, demands, orders, suggestions, users, dashboard, stocked>>

\* await db.orders.insert_one(order.dict())
create_order_insert(r) ==
    /\ req[r].pc = "insert"
    /\ orders' = InsertOne(orders, Order(Len(orders) + 1, req[r].caller,
                                         req[r].product, req[r].quantity))
    /\ req' = [req EXCEPT ![r].pc = "update"]
    /\ hist' = Interfere(r, req[r].product_id)
    /\ UNCHANGED <<products, demands, raced, suggestions, users, dashboard, stocked>>

\* the decrement written back from the product read at the check
create_order_update_from_read(r) ==
    /\ req[r].pc = "update"
    /\ products' = [i \in DOMAIN products |->
                       IF products[i].id = req[r].product_id
                       THEN [products[i] EXCEPT !.quantity_available =
                                req[r].product.quantity_available - req[r].quantity]
                       ELSE products[i]]
    /\ req' = [req EXCEPT ![r].pc = "done"]
    /\ hist' = Interfere(r, req[r].product_id)
    /\ UNCHANGED <<demands, orders, raced, suggestions, users, dashboard, stocked>>

\* await db.products.update_one(..., {"$inc": ...}); return order
create_order_update(r) ==
    /\ req[r].pc = "update"
    /\ products' = IncQuantity(products, req[r].product_id, -req[r].quantity)
    /\ req' = [req EXCEPT ![r].pc = "done"]
    /\ hist' = Interfere(r, req[r].product_id)
    /\ UNCHANGED <<demands, orders, raced, suggestions, users, dashboard, stocked>>

\* the response has been sent: the handler's locals are gone
create_order_return(r) ==
    /\ req[r].pc = "done"
    /\ req' = [req EXCEPT ![r] = IdleReq]
    /\ hist' = [hist EXCEPT ![r] = IdleHist]
    /\ UNCHANGED <<products, demands, orders, raced, suggestions, users, dashboard, stocked>>

Next ==
    \/ /\ Len(products) < MaxProducts
       /\ \E data \in ProductInputs : create_product("supplier1", data)
    \/ \E r \in Requests, u \in OrderCallers, pid \in 1 .. MaxProducts + 1, q \in Quantities :
          create_order_check(r, u, pid, q)
    \/ \E r \in Requests : create_order_insert(r)
    \/ \E r \in Requests : create_order_update(r)
    \/ \E r \in Requests : create_order_return(r)

Spec == Init /\ [][Next]_vars

---------------------------------------------------------------------------
(* The matcher's specification: products and demands are posted, and        *)
(* suggestions are asked for.  The handler's queries are taken against one  *)
(* store state.                                                             *)

\* Bound: documents in the store.  The first document posted to each
\* collection varies; later ones repeat the template.
MaxDocs == 12

TemplateProduct == [ash_type |-> "fly_ash", quantity_available |-> 2, price_per_ton |-> 2]

TemplateDemand == [ash_type |-> "fly_ash", quantity_required |-> 2, max_price_per_ton |-> 2]

\* against the template demand: a match on every bound, then one that fails
\* on quantity alone, on ash type alone, on price alone
VariedProducts ==
    {<<"supplier1", TemplateProduct>>,
     <<"supplier2", [TemplateProduct EXCEPT !.quantity_available = 1]>>,
     <<"supplier1", [TemplateProduct EXCEPT !.ash_type = "bottom_ash"]>>,
     <<"supplier1", [TemplateProduct EXCEPT !.price_per_ton = 3]>>}

VariedDemands ==
    {<<"buyer1", TemplateDemand>>,
     <<"buyer2", [TemplateDemand EXCEPT !.quantity_required = 3]>>,
     <<"buyer1", [TemplateDemand EXCEPT !.ash_type = "bottom_ash"]>>,
     <<"buyer1", [TemplateDemand EXCEPT !.max_price_per_ton = 1]>>}

\* documents posted through the handlers (the stored ones with is_active
\* false were not)
Posted(coll) == Cardinality({i \in DOMAIN coll : coll[i].is_active})

ProductPosts ==
    IF Posted(products) = 0 THEN VariedProducts
    ELSE {<<"supplier1", TemplateProduct>>}

DemandPosts ==
    IF Posted(demands) = 0 THEN VariedDemands
    ELSE {<<"buyer1", TemplateDemand>>}

InactiveDemand ==
    [id |-> 1, buyer_id |-> "buyer1", ash_type |-> "fly_ash",
     quantity_required |-> 2, max_price_per_ton |-> 2, is_active |-> FALSE]

MatchInit ==
    /\ products \in {<<>>, <<InactiveProduct>>}
    /\ demands \in {<<>>, <<InactiveDemand>>}
    /\ users = AllUsers
    /\ dashboard = [u \in Users |-> NotAsked]
    /\ stocked = StockedAt(products)
    /\ orders = <<>>
    /\ req = [r \in Requests |-> IdleReq]
    /\ hist = [r \in Requests |-> IdleHist]
    /\ raced = {}
    /\ suggestions = <<>>

\* POST /demands by a buyer (any other role gets 403 and nothing changes)
create_demand(u, data) ==
    /\ UserRole(u) = "buyer"
    /\ demands' = InsertOne(demands, DemandRequest(Len(demands) + 1, u, data))
    /\ UNCHANGED <<products, orders, req, hist, raced, suggestions, users, dashboard, stocked>>

\* GET /matching/suggestions
get_matching_suggestions(u) ==
    /\ suggestions' = <<[caller |-> u, suggestions |-> MatchingSuggestions(u)]>>
    /\ UNCHANGED <<products, demands, orders, req, hist, raced, users, dashboard, stocked>>

MatchNext ==
    \/ /\ Len(products) + Len(demands) < MaxDocs
       /\ \E post \in ProductPosts : create_product(post[1], post[2])
    \/ /\ Len(products) + Len(demands) < MaxDocs
       /\ \E post \in DemandPosts : create_demand(post[1], post[2])
    \/ \E u \in Users : get_matching_suggestions(u)

MatchSpec == MatchInit /\ [][MatchNext]_vars

---------------------------------------------------------------------------
(* The dashboard's specification: users register, products and demands are *)
(* posted, orders are placed, and dashboards are asked for.  The handler's  *)
(* counts are taken against one store state.  A behaviour follows the       *)
(* dashboards of one caller: the handler writes nothing, so the calls of    *)
(* other users do not bear on what that caller is answered.                 *)

MaxDemands == 1

DashUsers == {"admin1", "supplier1", "buyer1"}

\* the store after create_admin.py has run
DashInit ==
    /\ products \in {<<>>, <<InactiveProduct>>}
    /\ demands = <<>>
    /\ users = <<User("admin1")>>
    /\ dashboard = [u \in Users |-> NotAsked]
    /\ stocked = StockedAt(products)
    /\ orders = <<>>
    /\ req = [r \in Requests |-> IdleReq]
    /\ hist = [r \in Requests |-> IdleHist]
    /\ raced = {}
    /\ suggestions = <<>>

\* POST /auth/register (an email already registered gets 400 and nothing
\* changes)
register(u) ==
    /\ ~\E i \in DOMAIN users : users[i].email = u
    /\ users' = InsertOne(users, User(u))
    /\ UNCHANGED <<products, demands, orders, req, hist, raced, suggestions,
                   dashboard, stocked>>

\* GET /analytics/dashboard
get_dashboard_analytics(u) ==
    /\ Registered(u)
    /\ dashboard' = [dashboard EXCEPT ![u] = Dashboard(u)]
    /\ UNCHANGED <<products, demands, orders, req, hist, raced, suggestions,
                   users, stocked>>

DashNext ==
    \/ \E u \in DashUsers : register(u)
    \/ /\ Registered("supplier1") /\ Len(products) < MaxProducts
       /\ \E data \in ProductInputs : create_product("supplier1", data)
    \/ /\ Registered("buyer1") /\ Len(demands) < MaxDemands
       /\ create_demand("buyer1", TemplateDemand)
    \/ /\ Registered("buyer1")
       /\ \E pid \in 1 .. MaxProducts, q \in Quantities :
             create_order_check("r1", "buyer1", pid, q)
    \/ create_order_insert("r1")
    \/ create_order_update("r1")
    \/ create_order_return("r1")
    \/ \E u \in DashUsers :
          /\ \A v \in Users \ {u} : dashboard[v] = NotAsked
          /\ get_dashboard_analytics(u)

DashSpec == DashInit /\ [][DashNext]_vars

---------------------------------------------------------------------------
(* The order engine's properties *)

\* request r takes its first step: the checks of create_order
Checks(r) == req[r].pc = "idle" /\ req'[r].pc # "idle"

\* the product the checks of r find in the store (NoDoc when there is none)
Found(r) == FindOne(products, req'[r].product_id)

StoreUnchanged == products' = products /\ orders' = orders

\* a request that ended with an error status writes nothing afterwards
FailedStaysQuiet(r, code) ==
    (req[r].pc = "done" /\ req[r].status = code /\ req'[r] # req[r]) => StoreUnchanged

\* C1: a buyer's createOrder whose quantity exceeds the product's
\* quantity_available at the check ends with 400 (InsufficientInventory), and
\* the request changes neither the products nor the orders collection.
C1_InsufficientRejected ==
    [][\A r \in Requests :
          /\ (Checks(r) /\ UserRole(req'[r].caller) = "buyer" /\ Found(r) # NoDoc
                /\ req'[r].quantity > Found(r).quantity_available)
             => (req'[r].pc = "done" /\ req'[r].status = 400 /\ StoreUnchanged)
          /\ FailedStaysQuiet(r, 400)]_vars

C1_Witness ==
    \E r \in Requests :
        /\ req[r].pc = "done" /\ req[r].status = 400
        /\ req[r].product # NoDoc
        /\ req[r].quantity > req[r].product.quantity_available
        /\ orders = <<>>

\* C2 as stated: when a successful createOrder of quantity Q completes, the
\* product's quantity_available is A - Q, A being the availability the request
\* read when it started, and exactly one order for the product is new
\* (stated for positive quantities on active products, where it already fails).
C2_AfterOrderAsStated ==
    [][\A r \in Requests :
          (req[r].pc = "update" /\ req'[r].pc = "done"
             /\ req[r].quantity > 0 /\ req[r].product.is_active)
          => /\ FindOne(products', req[r].product_id).quantity_available
                  = req[r].product.quantity_available - req[r].quantity
             /\ Cardinality(OrdersOf(orders', req[r].product_id))
                  = hist[r].orders_before + 1]_vars

\* C2 amended: the same, for a request during which no other createOrder
\* inserted an order for the product or decremented it.
C2_AfterOrderAlone ==
    [][\A r \in Requests :
          (req[r].pc = "update" /\ req'[r].pc = "done" /\ ~hist[r].interfered)
          => /\ FindOne(products', req[r].product_id).quantity_available
                  = req[r].product.quantity_available - req[r].quantity
             /\ Cardinality(OrdersOf(orders', req[r].product_id))
                  = hist[r].orders_before + 1]_vars

C2_Witness ==
    \E r \in Requests :
        /\ req[r].pc = "done" /\ req[r].status = 200 /\ ~hist[r].interfered
        /\ req[r].quantity > 0
        /\ FindOne(products, req[r].product_id).quantity_available
             = req[r].product.quantity_available - req[r].quantity
        /\ Cardinality(OrdersOf(orders, req[r].product_id)) = hist[r].orders_before + 1

\* C3: a product's quantity_available is below 0 only if two createOrder
\* requests against it overlapped (one passed its check while the other was
\* between its check and its decrement); requests that run one at a time
\* never bring it below 0.
C3_OversellOnlyWhenRaced ==
    \A i \in DOMAIN products :
        products[i].quantity_available < 0 => products[i].id \in raced

\* two orders of positive quantity both succeeded against one product although
\* together they exceed what it had
C3_Witness ==
    \E i \in DOMAIN products :
        /\ products[i].quantity_available < 0
        /\ Cardinality(OrdersOf(orders, products[i].id)) = 2
        /\ \A k \in OrdersOf(orders, products[i].id) : orders[k].quantity > 0
        /\ \A r \in Requests : ~InFlight(r)

\* C4: every stored order has total_amount = agreed_price_per_ton * quantity.
C4_TotalAmount ==
    \A i \in DOMAIN orders :
        orders[i].total_amount = orders[i].agreed_price_per_ton * orders[i].quantity

\* an order of a positive quantity stored for a product on which requests raced
C4_Witness ==
    \E i \in DOMAIN orders :
        /\ orders[i].quantity > 0
        /\ orders[i].total_amount > 0
        /\ orders[i].product_id \in raced

\* C5: a createOrder succeeds only against a product whose is_active is true:
\* no request completes with an order recorded and the stock decremented for
\* an inactive product (stated for positive quantities).
C5_InactiveNotOrdered ==
    \A r \in Requests :
        (req[r].pc = "done" /\ req[r].status = 200 /\ req[r].quantity > 0)
        => req[r].product.is_active

\* C6: with no other createOrder in flight, a createOrder by a buyer against
\* a product whose quantity_available is 0 fails the availability check,
\* whatever quantity it asks for (stated for active products).
C6_ZeroStockRejects ==
    [][\A r \in Requests :
          (Checks(r) /\ UserRole(req'[r].caller) = "buyer" /\ Found(r) # NoDoc
             /\ Found(r).quantity_available = 0 /\ Found(r).is_active
             /\ \A x \in Requests \ {r} : ~InFlight(x))
          => (req'[r].pc = "done" /\ req'[r].status = 400)]_vars

\* C7: a createOrder by a caller who is not a buyer ends with 403 whether or
\* not the product exists, a buyer's createOrder for a missing product ends
\* with 404, and neither changes products or orders.
C7_ForbiddenThenNotFound ==
    [][\A r \in Requests :
          /\ (Checks(r) /\ UserRole(req'[r].caller) # "buyer")
             => (req'[r].pc = "done" /\ req'[r].status = 403 /\ StoreUnchanged)
          /\ (Checks(r) /\ UserRole(req'[r].caller) = "buyer" /\ Found(r) = NoDoc)
             => (req'[r].pc = "done" /\ req'[r].status = 404 /\ StoreUnchanged)
          /\ FailedStaysQuiet(r, 403)
          /\ FailedStaysQuiet(r, 404)]_vars

\* one request refused with 403 for a missing product, another for a product
\* in stock, and a buyer's request answered 404
C7_Witness ==
    \E r1, r2 \in Requests :
        /\ req[r1].pc = "done" /\ req[r1].status = 403
        /\ FindOne(products, req[r1].product_id) # NoDoc
        /\ FindOne(products, req[r1].product_id).quantity_available >= req[r1].quantity
        /\ req[r1].quantity > 0
        /\ req[r2].pc = "done" /\ req[r2].status = 404
        /\ UserRole(req[r2].caller) = "buyer"

RECURSIVE SumQuantity(_, _)
\* the sum of quantity over the orders of os recorded against product pid
SumQuantity(os, pid) ==
    IF os = <<>> THEN 0
    ELSE (IF Head(os).product_id = pid THEN Head(os).quantity ELSE 0)
         + SumQuantity(Tail(os), pid)

\* the requests that have inserted their order for pid and not yet decremented
Undecremented(pid) == {r \in Requests : req[r].pc = "update" /\ req[r].product_id = pid}

RECURSIVE SumRequested(_)
SumRequested(rs) ==
    IF rs = {} THEN 0
    ELSE LET r == CHOOSE x \in rs : TRUE
         IN req[r].quantity + SumRequested(rs \ {r})

\* C12: under any interleaving, a product's quantity_available plus the
\* quantities of the orders recorded against it equals the quantity it was
\* created with, plus the quantities of the requests that have inserted their
\* order and not yet decremented: with no request between its two writes the
\* two sides are equal without them, and no decrement is lost.
C12_StockConserved ==
    \A i \in DOMAIN products :
        products[i].quantity_available + SumQuantity(orders, products[i].id)
           = stocked[i] + SumRequested(Undecremented(products[i].id))

\* two overlapping requests have both completed on a product, each saw the
\* other's write, and no request is between its two writes
C12_Witness ==
    \E i \in DOMAIN products :
        /\ products[i].id \in raced
        /\ Cardinality(OrdersOf(orders, products[i].id)) = 2
        /\ \A k \in OrdersOf(orders, products[i].id) : orders[k].quantity # 0
        /\ \A r \in Requests : req[r].pc \in {"done", "idle"}
        /\ \A r \in Requests : req[r].pc = "done" => hist[r].interfered
        /\ products[i].quantity_available + SumQuantity(orders, products[i].id) = stocked[i]
        /\ products[i].quantity_available # stocked[i]

---------------------------------------------------------------------------
(* The matcher's properties *)

InSeq(x, s) == \E i \in DOMAIN s : s[i] = x

\* the matching rule as the specification words it, for demand d and product p
Compatible(d, p) ==
    /\ p.ash_type = d.ash_type
    /\ p.quantity_available >= d.quantity_required
    /\ p.price_per_ton <= d.max_price_per_ton
    /\ p.is_active
    /\ d.is_active

CompatibleProducts(d) == {j \in DOMAIN products : Compatible(d, products[j])}

CompatibleDemands(p) == {i \in DOMAIN demands : Compatible(demands[i], p)}

\* what every user would be answered on the present store state
Answers == [u \in Users |-> MatchingSuggestions(u)]

\* product p is in the group of demand d in the buyer's answer S
BuyerSideMatch(S, d, p) ==
    \E k \in DOMAIN S : S[k].demand = d /\ InSeq(p, S[k].matching_products)

\* demand d is in the group of product p in the supplier's answer S
SupplierSideMatch(S, d, p) ==
    \E k \in DOMAIN S : S[k].product = p /\ InSeq(d, S[k].matching_demands)

\* the last response is the answer to a call on the present store state
Fresh ==
    /\ suggestions # <<>>
    /\ suggestions[1].suggestions = MatchingSuggestions(suggestions[1].caller)

\* C8 as stated: in every store state, a product in the buyer-side group of
\* an active demand has that demand in its supplier-side group.
C8_SymmetricAsStated ==
    LET A == Answers
    IN \A i \in DOMAIN demands, j \in DOMAIN products :
          (/\ demands[i].is_active
           /\ BuyerSideMatch(A[demands[i].buyer_id], demands[i], products[j]))
          => SupplierSideMatch(A[products[j].supplier_id], demands[i], products[j])

\* C8 amended: the same, for a product that at most 10 demands of the store
\* match.
C8_SymmetricWithinLimit ==
    LET A == Answers
    IN \A i \in DOMAIN demands, j \in DOMAIN products :
          (/\ demands[i].is_active
           /\ BuyerSideMatch(A[demands[i].buyer_id], demands[i], products[j])
           /\ Cardinality(CompatibleDemands(products[j])) <= 10)
          => SupplierSideMatch(A[products[j].supplier_id], demands[i], products[j])

\* a supplier was answered for a product that exactly 10 demands match, the
\* last of them matched both ways
C8_Witness ==
    /\ Fresh
    /\ \E i \in DOMAIN demands, j \in DOMAIN products :
          /\ suggestions[1].caller = products[j].supplier_id
          /\ Cardinality(CompatibleDemands(products[j])) = 10
          /\ \A k \in CompatibleDemands(products[j]) : k <= i
          /\ BuyerSideMatch(Answers[demands[i].buyer_id], demands[i], products[j])
          /\ SupplierSideMatch(suggestions[1].suggestions, demands[i], products[j])

GroupSize(g) ==
    IF "matching_products" \in DOMAIN g THEN Len(g.matching_products)
    ELSE Len(g.matching_demands)

\* C10: every group of a buyer's or a supplier's suggestions holds between 1
\* and 10 counterparts, and a logistics or admin caller gets the empty list.
C10_GroupSizes ==
    LET A == Answers
    IN \A u \in Users :
          /\ \A k \in DOMAIN A[u] : GroupSize(A[u][k]) \in 1 .. 10
          /\ UserRole(u) \in {"logistics", "admin"} => A[u] = <<>>

\* a caller was answered with a group of 10 while 11 documents match its anchor
C10_Witness ==
    /\ Fresh
    /\ \E k \in DOMAIN suggestions[1].suggestions :
          /\ GroupSize(suggestions[1].suggestions[k]) = 10
          /\ \/ /\ UserRole(suggestions[1].caller) = "buyer"
                /\ Cardinality(CompatibleProducts(suggestions[1].suggestions[k].demand)) = 11
             \/ /\ UserRole(suggestions[1].caller) = "supplier"
                /\ Cardinality(CompatibleDemands(suggestions[1].suggestions[k].product)) = 11

---------------------------------------------------------------------------
(* The dashboard's properties *)

CountFields ==
    {"total_users", "total_products", "total_orders", "total_demands",
     "my_products", "my_orders", "my_demands"}

\* C11: no count a caller's dashboard reports is lower than the same count in
\* that caller's previous dashboard, and a dashboard call changes no stored
\* document.
C11_CountsNeverDecrease ==
    [][/\ \A u \in Users :
             (dashboard[u] # NotAsked /\ dashboard'[u] # dashboard[u])
             => \A f \in CountFields \cap DOMAIN dashboard[u] :
                   dashboard'[u][f] >= dashboard[u][f]
       /\ dashboard' # dashboard
          => (products' = products /\ demands' = demands /\ orders' = orders
                /\ users' = users)]_vars

\* the admin was answered, and every count of the admin's dashboard has
\* grown since
C11_Witness ==
    /\ dashboard["admin1"] # NotAsked
    /\ \A f \in DOMAIN AdminDashboard : AdminDashboard[f] > dashboard["admin1"][f]
    /\ dashboard["admin1"].total_users > 1

====
